---- MODULE Spec2Model ----
(***************************************************************************)
(* Battery Monitor Pro: the periodic sampling-and-alerting loop            *)
(* (BatteryMonitorPro.update_interface), the settings dialog's             *)
(* save_and_close handler and quit_app, as a state machine.                *)
(*                                                                         *)
(* Percentages are whole percents, except the raw psutil reading, which is *)
(* kept in half-percent units so that int(round(.)) is a real conversion.  *)
(* Times are seconds since the epoch (time.time()).  rate_per_hour is an   *)
(* exact fraction <<numerator, denominator>> in lowest terms.              *)
(***************************************************************************)
EXTENDS Integers, Sequences, FiniteSets, TLC

\* Python's None and a present value: an optional is a sequence of length <= 1
None == << >>

Some(x) == << x >>

Val(o) == o[1]

\* ------------------------------------------------------------------------
\* Bounds of the model
\* ------------------------------------------------------------------------

\* history_size values a configuration file supplies: 1..MaxHistorySize
MaxHistorySize == 2

\* number of time steps the clock may take (each of StepSeconds)
MaxSteps == 1

\* ------------------------------------------------------------------------
\* Program constants
\* ------------------------------------------------------------------------

\* time.time() when the application starts (any positive epoch time)
StartClock == 7200

\* seconds between two readings of the clock
StepSeconds == 1800

SecondsPerHour == 3600

\* platform.system() == "Windows": the Windows build is the one modelled
IS_WINDOWS == TRUE

\* DEFAULT_CONFIG, the fields the sampling loop and the dialog use
DEFAULT_CONFIG ==
    [ seuil_critique          |-> 15,
      seuil_plein             |-> 95,
      interval_ms             |-> 5000,
      history_size            |-> 60,
      auto_hibernate          |-> FALSE,
      hibernate_threshold     |-> 5,
      enable_power_saver_auto |-> FALSE,
      power_saver_threshold   |-> 20,
      custom_command          |-> "" ]

\* ------------------------------------------------------------------------
\* Inputs
\* ------------------------------------------------------------------------

\* config.json as load_config may find it: the defaults as saved, with a
\* small history_size; a file edited by hand to values outside the dialog's
\* ranges; and a file with the automatic actions switched on.
ConfigFiles ==
    { [DEFAULT_CONFIG EXCEPT !.history_size = n] : n \in 1..MaxHistorySize }
    \cup
    { [DEFAULT_CONFIG EXCEPT !.history_size = 1,
                             !.seuil_critique = 0,
                             !.seuil_plein = 30,
                             !.interval_ms = 500],
      [DEFAULT_CONFIG EXCEPT !.history_size = 1,
                             !.auto_hibernate = TRUE,
                             !.enable_power_saver_auto = TRUE,
                             !.custom_command = "cmd"] }

\* psutil's battery.percent in half-percent units: 4.5, 12, and 255, the
\* byte Windows reports for an unknown charge level, which psutil passes on
BatteryPercents2 == {9, 24, 510}

\* psutil.sensors_battery(): None (no battery) or a reading
Readings ==
    [ percent2 : BatteryPercents2, power_plugged : BOOLEAN ]

\* What the user leaves in the settings dialog.  A control left as the dialog
\* opened it is None (its variable still holds the field's value); a changed
\* one holds the new value.  interval_parses is FALSE when the text of the
\* interval entry is not an integer.
NoChange ==
    [ crit |-> None, full |-> None, interval |-> None,
      interval_parses |-> TRUE, auto_h |-> None, hiber |-> None,
      ps |-> None, ps_thresh |-> None, cmd |-> None ]

SettingsForms ==
    { NoChange,
      [ crit |-> Some(5), full |-> Some(80), interval |-> Some(2000),
        interval_parses |-> TRUE, auto_h |-> Some(TRUE),
        hiber |-> Some(12), ps |-> Some(TRUE), ps_thresh |-> Some(30),
        cmd |-> Some("cmd") ],
      [ crit |-> Some(20), full |-> Some(100), interval |-> None,
        interval_parses |-> FALSE, auto_h |-> Some(TRUE),
        hiber |-> Some(3), ps |-> Some(TRUE), ps_thresh |-> Some(10),
        cmd |-> Some("cmd") ] }

\* ------------------------------------------------------------------------
\* State
\* ------------------------------------------------------------------------

VARIABLES
    \* configuration fields of BatteryMonitorPro
    seuil_critique, seuil_plein, interval_ms, history_size,
    auto_hibernate, hibernate_threshold,
    enable_power_saver_auto, power_saver_threshold, custom_command,
    \* the engine's state
    deja_alerte_critique, deja_alerte_plein, history,
    last_percent, last_update, _running,
    \* label_rate: the rate_per_hour last displayed
    label_rate,
    \* time.time()
    clock,
    \* root.after callbacks of update_interface waiting to run
    pending,
    \* position of update_interface: "idle", or "prompt" while
    \* messagebox.askyesno is open, with the suspended call's locals
    pc, frame,
    \* history variables: what the last operation did, the last sample whose
    \* processing ran to the end, the samples appended since the history was
    \* last empty, whether the auto-hibernate prompt was opened since the start
    ev, prev, arrived, n_arrived, asked_before

cfgVars == << seuil_critique, seuil_plein, interval_ms, history_size,
              auto_hibernate, hibernate_threshold,
              enable_power_saver_auto, power_saver_threshold, custom_command >>

latchVars == << deja_alerte_critique, deja_alerte_plein >>

trackVars == << last_percent, last_update >>

ghostVars == << prev, arrived, n_arrived, asked_before >>

vars == << cfgVars, latchVars, trackVars, history, _running, label_rate,
           clock, pending, pc, frame, ev, ghostVars >>

\* ------------------------------------------------------------------------
\* Pure helpers
\* ------------------------------------------------------------------------

Abs(x) == IF x < 0 THEN -x ELSE x

Max(a, b) == IF a >= b THEN a ELSE b

Min(a, b) == IF a <= b THEN a ELSE b

RECURSIVE Gcd(_, _)
Gcd(a, b) == IF b = 0 THEN a ELSE Gcd(b, a % b)

\* the fraction n/d (d > 0) in lowest terms
Frac(n, d) ==
    LET g == Gcd(Abs(n), d)
    IN  << n \div g, d \div g >>

Zero == << 0, 1 >>

\* int(round(x)) of a value given in half units: Python rounds halves to even
RoundHalfEven(x2) ==
    LET q == x2 \div 2
    IN  IF x2 % 2 = 0 THEN q
        ELSE IF q % 2 = 0 THEN q ELSE q + 1

\* a full buffer that refuses the new value instead of evicting the oldest
DequeAppendKeepOldest(h, x) ==
    IF Len(h) >= history_size THEN h ELSE Append(h, x)

\* deque(maxlen=history_size).append
DequeAppend(h, x) ==
    IF history_size = 0 THEN << >>
    ELSE IF Len(h) >= history_size THEN Tail(h) \o << x >>
    ELSE Append(h, x)

\* the last n elements of s
LastN(s, n) ==
    IF Len(s) <= n THEN s ELSE SubSeq(s, Len(s) - n + 1, Len(s))

\* ------------------------------------------------------------------------
\* The computations of update_interface
\* ------------------------------------------------------------------------

\* pct = int(round(batterie.percent))
Pct(reading) == RoundHalfEven(reading.percent2)

\* charging = bool(batterie.power_plugged)
Charging(reading) == reading.power_plugged

\* a rate in percent per second: the elapsed time is not turned into hours
RateOfPerSecond(pct, last_pct, last_upd, now) ==
    IF last_pct /= None /\ last_upd /= None /\ last_upd /= Some(0)
    THEN IF now - Val(last_upd) > 0
         THEN Frac(pct - Val(last_pct), now - Val(last_upd))
         ELSE Zero
    ELSE Zero

\* rate_per_hour: dt = (time.time() - last_update) / 3600.0 hours,
\* (pct - last_percent) / dt when dt > 0, else 0.0; 0.0 without a previous
\* reading (last_percent None, or last_update None or zero)
RateOf(pct, last_pct, last_upd, now) ==
    IF last_pct /= None /\ last_upd /= None /\ last_upd /= Some(0)
    THEN LET dt == << now - Val(last_upd), SecondsPerHour >>
         IN  IF dt[1] > 0
             THEN Frac((pct - Val(last_pct)) * dt[2], dt[1])
             ELSE Zero
    ELSE Zero

RatePerHour(pct) == RateOf(pct, last_percent, last_update, clock)

\* 1) Critical low
CriticalCondition(pct, charging) == pct <= seuil_critique /\ ~charging

\* 2) Full-charge reminder
FullCondition(pct, charging) == charging /\ pct >= seuil_plein

\* a prompt that does not look at hibernate_threshold
HibernateConditionAnyLevel(pct) == auto_hibernate /\ IS_WINDOWS

\* the auto-hibernate prompt is reached
HibernateCondition(pct) ==
    auto_hibernate /\ IS_WINDOWS /\ pct <= hibernate_threshold

\* deja_alerte_critique after the critical block has run to its end
CriticalLatch(pct, charging) ==
    IF CriticalCondition(pct, charging)
    THEN IF ~deja_alerte_critique THEN TRUE ELSE deja_alerte_critique
    ELSE FALSE

\* deja_alerte_plein after the full-charge block
FullLatch(pct, charging) ==
    IF FullCondition(pct, charging)
    THEN IF ~deja_alerte_plein THEN TRUE ELSE deja_alerte_plein
    ELSE FALSE

\* a level-triggered full-charge alert: the latch is not consulted
FullFiresLevel(pct, charging) == FullCondition(pct, charging)

\* the full-charge alert fires
FullFires(pct, charging) ==
    FullCondition(pct, charging) /\ ~deja_alerte_plein

\* a level-triggered critical alert: the latch is not consulted
CriticalFiresLevel(pct, charging) == CriticalCondition(pct, charging)

\* the critical alert fires
CriticalFires(pct, charging) ==
    CriticalCondition(pct, charging) /\ ~deja_alerte_critique

\* ------------------------------------------------------------------------
\* History variables
\* ------------------------------------------------------------------------

\* no call of update_interface is suspended
NoFrame == [ pct |-> 0, charging |-> FALSE ]

NoPrev ==
    [ some |-> FALSE, pct |-> 0, charging |-> FALSE, time |-> 0,
      crit |-> FALSE, full |-> FALSE, gap |-> FALSE ]

\* what an operation did: the sample it read, how it ended, and the
\* collaborators it called
Events(op) ==
    [ op |-> op, sample |-> "none", outcome |-> "none",
      critical |-> FALSE, full |-> FALSE, command |-> FALSE,
      power_saver |-> FALSE, asked |-> FALSE, hibernate |-> FALSE,
      scheduled |-> FALSE ]

\* the samples appended since the history was last empty: the last
\* history_size of them, and their number up to history_size + 1
Arrive(pct) ==
    /\ arrived' = LastN(Append(arrived, pct), history_size)
    /\ n_arrived' = Min(n_arrived + 1, history_size + 1)

\* ------------------------------------------------------------------------
\* Initial state: __init__ up to the first call of update_interface
\* ------------------------------------------------------------------------

Init ==
    /\ \E config \in ConfigFiles :
        /\ seuil_critique = config.seuil_critique
        /\ seuil_plein = config.seuil_plein
        /\ interval_ms = config.interval_ms
        /\ history_size = config.history_size
        /\ auto_hibernate = config.auto_hibernate
        /\ hibernate_threshold = config.hibernate_threshold
        /\ enable_power_saver_auto = config.enable_power_saver_auto
        /\ power_saver_threshold = config.power_saver_threshold
        /\ custom_command = config.custom_command
    /\ deja_alerte_critique = FALSE
    /\ deja_alerte_plein = FALSE
    /\ history = << >>
    /\ _running = TRUE
    /\ last_percent = None
    /\ last_update = None
    /\ label_rate = None
    /\ clock = StartClock
    /\ pending = 1
    /\ pc = "idle"
    /\ frame = NoFrame
    /\ prev = NoPrev
    /\ arrived = << >>
    /\ n_arrived = 0
    /\ asked_before = FALSE
    /\ ev = Events("init")

\* ------------------------------------------------------------------------
\* update_interface
\* ------------------------------------------------------------------------

\* the sample just processed to the end, as the next one will look back on it
Processed(pct, charging) ==
    [ some |-> TRUE, pct |-> pct, charging |-> charging, time |-> clock,
      crit |-> (pct <= seuil_critique /\ ~charging),
      full |-> (charging /\ pct >= seuil_plein), gap |-> FALSE ]

\* a call made after quit_app that returns but asks for another call
TickStoppedSchedules ==
    /\ pc = "idle" /\ pending > 0 /\ ~_running
    /\ pending' = pending - 1 + 1
    /\ ev' = [Events("tick") EXCEPT !.outcome = "returned",
                                    !.scheduled = TRUE]
    /\ UNCHANGED << cfgVars, latchVars, trackVars, history, _running,
                    label_rate, clock, pc, frame, ghostVars >>

\* if not self._running: return
TickStopped ==
    /\ pc = "idle" /\ pending > 0 /\ ~_running
    /\ pending' = pending - 1
    /\ ev' = [Events("tick") EXCEPT !.outcome = "returned"]
    /\ UNCHANGED << cfgVars, latchVars, trackVars, history, _running,
                    label_rate, clock, pc, frame, ghostVars >>

\* a failed read that escapes update_interface: nothing is scheduled after it
TickReadFailsUnscheduled ==
    /\ pc = "idle" /\ pending > 0 /\ _running
    /\ pending' = pending - 1
    /\ ev' = [Events("tick") EXCEPT !.outcome = "raised"]
    /\ UNCHANGED << cfgVars, latchVars, trackVars, history, _running,
                    label_rate, clock, pc, frame, ghostVars >>

\* psutil.sensors_battery() raises: logged, the next call is scheduled
TickReadFails ==
    /\ pc = "idle" /\ pending > 0 /\ _running
    /\ pending' = pending - 1 + 1
    /\ ev' = [Events("tick") EXCEPT !.outcome = "raised", !.scheduled = TRUE]
    /\ UNCHANGED << cfgVars, latchVars, trackVars, history, _running,
                    label_rate, clock, pc, frame, ghostVars >>

\* a no-battery branch that also clears the two latches
NoBatteryResetsLatches ==
    /\ deja_alerte_critique' = FALSE
    /\ deja_alerte_plein' = FALSE
    /\ UNCHANGED trackVars

\* a no-battery branch that also forgets the last reading
NoBatteryResetsTrackers ==
    /\ last_percent' = None
    /\ last_update' = None
    /\ UNCHANGED latchVars

\* the no-battery branch assigns neither the latches nor the trackers
NoBatteryKeeps == UNCHANGED << latchVars, trackVars >>

\* no battery: the gauge and labels are drawn, then the history is cleared;
\* a drawing call that raises (draws_ok FALSE) ends the try block before it
TickNoBattery(draws_ok) ==
    /\ pc = "idle" /\ pending > 0 /\ _running
    /\ IF draws_ok
       THEN /\ history' = << >>
            /\ arrived' = << >>
            /\ n_arrived' = 0
       ELSE UNCHANGED << history, arrived, n_arrived >>
    /\ prev' = [prev EXCEPT !.gap = TRUE]
    /\ pending' = pending - 1 + 1
    /\ ev' = [Events("tick") EXCEPT
                !.sample = "absent",
                !.outcome = IF draws_ok THEN "completed" ELSE "raised",
                !.scheduled = TRUE]
    /\ NoBatteryKeeps
    /\ UNCHANGED << cfgVars, _running, label_rate, clock, pc, frame,
                    asked_before >>

\* a battery reading.  The rate is computed and the percent appended; the
\* gauge, history and labels are drawn (a call that raises ends the try block
\* there); then the two alert blocks run and the trackers are updated.  When
\* the critical alert fires and the auto-hibernate prompt is due, the call
\* stays in messagebox.askyesno until PromptAnswer.
\* notifier.notify, beep, the custom command's Popen, windows_set_power_saver
\* and show_big_alert catch their own exceptions, so a failure in one of them
\* leaves the call where their success does.
TickPresent(reading, draws_ok) ==
    LET pct == Pct(reading)
        charging == Charging(reading)
        rate_per_hour == RatePerHour(pct)
        critical == CriticalFires(pct, charging)
        sampled == [Events("tick") EXCEPT !.sample = "present"]
    IN
    /\ pc = "idle" /\ pending > 0 /\ _running
    /\ history' = DequeAppend(history, pct)
    /\ Arrive(pct)
    /\ IF ~draws_ok
       THEN /\ ev' = [sampled EXCEPT !.outcome = "raised",
                                     !.scheduled = TRUE]
            /\ pending' = pending - 1 + 1
            /\ UNCHANGED << latchVars, trackVars, label_rate, pc, frame,
                            prev, asked_before >>
       ELSE
       /\ label_rate' = rate_per_hour
       /\ IF critical /\ HibernateCondition(pct)
          THEN /\ pc' = "prompt"
               /\ frame' = [ pct |-> pct, charging |-> charging ]
               /\ ev' = [sampled EXCEPT
                           !.outcome = "blocked",
                           !.critical = TRUE,
                           !.command = (custom_command /= ""),
                           !.power_saver =
                               (enable_power_saver_auto /\ IS_WINDOWS),
                           !.asked = TRUE]
               /\ pending' = pending - 1
               /\ asked_before' = TRUE
               /\ UNCHANGED << latchVars, trackVars, prev >>
          ELSE /\ deja_alerte_critique' = CriticalLatch(pct, charging)
               /\ deja_alerte_plein' = FullLatch(pct, charging)
               /\ last_percent' = Some(pct)
               /\ last_update' = Some(clock)
               /\ prev' = Processed(pct, charging)
               /\ ev' = [sampled EXCEPT
                           !.outcome = "completed",
                           !.critical = critical,
                           !.command = (critical /\ custom_command /= ""),
                           !.power_saver =
                               (critical /\ enable_power_saver_auto
                                         /\ IS_WINDOWS),
                           !.full = FullFires(pct, charging),
                           !.scheduled = TRUE]
               /\ pending' = pending - 1 + 1
               /\ UNCHANGED << pc, frame, asked_before >>
    /\ UNCHANGED << cfgVars, _running, clock >>

\* messagebox.askyesno returns (windows_hibernate on yes) or raises; the
\* rest of the suspended call runs: the big alert, the latch, the full-charge
\* block, the trackers, root.after (which raises once the root is destroyed)
Answers == {"yes", "no", "raises"}

PromptAnswer(answer) ==
    /\ pc = "prompt"
    /\ pc' = "idle"
    /\ frame' = NoFrame
    /\ pending' = IF _running THEN pending + 1 ELSE pending
    /\ IF answer = "raises"
       THEN /\ ev' = [ev EXCEPT !.outcome = "raised", !.scheduled = _running]
            /\ UNCHANGED << latchVars, trackVars, prev >>
       ELSE /\ deja_alerte_critique' = TRUE
            /\ deja_alerte_plein' = FullLatch(frame.pct, frame.charging)
            /\ last_percent' = Some(frame.pct)
            /\ last_update' = Some(clock)
            /\ prev' = Processed(frame.pct, frame.charging)
            /\ ev' = [ev EXCEPT
                        !.outcome = "completed",
                        !.hibernate = (answer = "yes"),
                        !.full = FullFires(frame.pct, frame.charging),
                        !.scheduled = _running]
    /\ UNCHANGED << cfgVars, history, _running, label_rate, clock,
                    arrived, n_arrived, asked_before >>

\* ------------------------------------------------------------------------
\* open_settings.save_and_close
\* ------------------------------------------------------------------------

\* var.get() of a dialog variable created with value=current
Get(entry, current) == IF entry = None THEN current ELSE Val(entry)

\* a save that re-arms both alerts
SettingsResetsLatches ==
    /\ deja_alerte_critique' = FALSE
    /\ deja_alerte_plein' = FALSE

\* save_and_close assigns neither latch
SettingsKeeps == UNCHANGED latchVars

\* the assignments of save_and_close, in order.  int(interval_var.get())
\* raises when the entry's text is no integer: the except branch shows an
\* error box, and the assignments made before it stay.
SaveAndClose(form) ==
    /\ pc = "idle" /\ _running
    /\ seuil_critique' = Max(1, Min(99, Get(form.crit, seuil_critique)))
    /\ seuil_plein' = Max(50, Min(100, Get(form.full, seuil_plein)))
    /\ IF form.interval_parses
       THEN /\ interval_ms' = Max(1000, Get(form.interval, interval_ms))
            /\ auto_hibernate' = Get(form.auto_h, auto_hibernate)
            /\ hibernate_threshold' =
                   Max(1, Min(20, Get(form.hiber, hibernate_threshold)))
            /\ enable_power_saver_auto' =
                   Get(form.ps, enable_power_saver_auto)
            /\ power_saver_threshold' =
                   Max(5, Min(50, Get(form.ps_thresh, power_saver_threshold)))
            /\ custom_command' = Get(form.cmd, custom_command)
            /\ ev' = [Events("settings") EXCEPT !.outcome = "completed"]
       ELSE /\ ev' = [Events("settings") EXCEPT !.outcome = "raised"]
            /\ UNCHANGED << interval_ms, auto_hibernate, hibernate_threshold,
                            enable_power_saver_auto, power_saver_threshold,
                            custom_command >>
    /\ SettingsKeeps
    /\ UNCHANGED << history_size, trackVars, history, _running,
                    label_rate, clock, pending, pc, frame,
                    ghostVars >>

\* ------------------------------------------------------------------------
\* quit_app (the FERMER button, the window's close box, the tray menu)
\* ------------------------------------------------------------------------

Quit ==
    /\ _running
    /\ _running' = FALSE
    /\ ev' = IF pc = "prompt" THEN ev ELSE Events("quit")
    /\ UNCHANGED << cfgVars, latchVars, trackVars, history, label_rate,
                    clock, pending, pc, frame, ghostVars >>

\* ------------------------------------------------------------------------
\* time.time() advances
\* ------------------------------------------------------------------------

TimePasses ==
    /\ clock < StartClock + MaxSteps * StepSeconds
    /\ clock' = clock + StepSeconds
    /\ UNCHANGED << cfgVars, latchVars, trackVars, history, _running,
                    label_rate, pending, pc, frame, ev,
                    ghostVars >>

\* ------------------------------------------------------------------------
\* Specification
\* ------------------------------------------------------------------------

Next ==
    \/ TickStopped
    \/ TickReadFails
    \/ \E draws_ok \in BOOLEAN : TickNoBattery(draws_ok)
    \/ \E reading \in Readings, draws_ok \in BOOLEAN :
          TickPresent(reading, draws_ok)
    \/ \E answer \in Answers : PromptAnswer(answer)
    \/ \E form \in SettingsForms : SaveAndClose(form)
    \/ Quit
    \/ TimePasses

Spec == Init /\ [][Next]_vars

\* ------------------------------------------------------------------------
\* Steps the properties speak of
\* ------------------------------------------------------------------------

\* update_interface processes a battery reading to the end of its try block:
\* in one step, or by the answer to the auto-hibernate prompt
CompletesPresent ==
    /\ ev'.op = "tick" /\ ev'.sample = "present"
    /\ ev'.outcome = "completed"
    /\ \/ \E reading \in Readings : TickPresent(reading, TRUE)
       \/ \E answer \in {"yes", "no"} : PromptAnswer(answer)

\* update_interface reads a battery and draws it: the rate is displayed
DrawsPresent(reading) ==
    /\ ev'.op = "tick" /\ ev'.sample = "present"
    /\ ev'.outcome \in {"completed", "blocked"}
    /\ TickPresent(reading, TRUE)

\* update_interface reads "no battery"
NoBatteryTick ==
    /\ ev'.op = "tick" /\ ev'.sample = "absent"
    /\ \E draws_ok \in BOOLEAN : TickNoBattery(draws_ok)

\* a call of update_interface made while running comes to its end: in one
\* step, or by the prompt's answer or failure
TickEnds ==
    /\ ev'.op = "tick" /\ ev'.outcome \in {"completed", "raised"}
    /\ \/ TickReadFails
       \/ \E draws_ok \in BOOLEAN : TickNoBattery(draws_ok)
       \/ \E reading \in Readings, draws_ok \in BOOLEAN :
             TickPresent(reading, draws_ok)
       \/ \E answer \in Answers : PromptAnswer(answer)

\* update_interface opens the auto-hibernate prompt
AsksPrompt ==
    /\ ev'.asked /\ ev'.outcome = "blocked"
    /\ \E reading \in Readings : TickPresent(reading, TRUE)

\* ------------------------------------------------------------------------
\* Properties
\* ------------------------------------------------------------------------

C3_HistoryBoundedFifo ==
    /\ Len(history) <= history_size
    /\ history = arrived
    /\ n_arrived >= history_size => Len(history) = history_size

\* C3 witness: more values than history_size have arrived, so the oldest was
\* evicted, and the two kept differ, so their order shows
C3_Witness ==
    /\ history_size = 2 /\ n_arrived > history_size
    /\ history[1] /= history[2]

C5_RateZeroAfterGap ==
    [][ ( /\ prev.some /\ prev.gap /\ history = << >>
          /\ \E reading \in Readings : DrawsPresent(reading) )
        => label_rate' = Zero
      ]_vars

\* C6: a no-battery tick changes nothing but the history, which it empties
\* (unless a drawing call raised before history.clear()): configuration,
\* latches, last_percent, last_update, _running and the displayed rate stay,
\* and no alert, command, prompt or power action happens.
C6_NoBatteryFrame ==
    [][ NoBatteryTick =>
            /\ TickNoBattery(TRUE) => history' = << >>
            /\ history' \in { << >>, history }
            /\ UNCHANGED << cfgVars, latchVars, trackVars, _running,
                            label_rate, pc, frame, pending, clock >>
            /\ ~ev'.critical /\ ~ev'.full /\ ~ev'.command
            /\ ~ev'.power_saver /\ ~ev'.asked /\ ~ev'.hibernate
      ]_vars

\* C6 witness: a no-battery tick has emptied the history while a reading is
\* on record
C6_Witness ==
    /\ ev.op = "tick" /\ ev.sample = "absent" /\ ev.outcome = "completed"
    /\ history = << >> /\ last_percent /= None /\ last_update /= None

\* C7: the rate displayed for a battery reading is
\* (pct - last_percent) * 3600 / elapsed seconds when a previous reading is
\* on record and time has passed, 0 when no time has passed, and 0 when no
\* reading is on record; 50 -> 45 over 1800 s gives -10 per hour.
C7_RateComputation ==
    [][ /\ \A reading \in Readings :
            DrawsPresent(reading) =>
                IF prev.some
                THEN LET elapsed == clock - prev.time
                         diff == Pct(reading) - prev.pct
                     IN  IF elapsed > 0
                         THEN /\ label_rate'[2] > 0
                              /\ label_rate'[1] * elapsed
                                    = diff * 3600 * label_rate'[2]
                         ELSE label_rate' = Zero
                ELSE label_rate' = Zero
        /\ RateOf(45, Some(50), Some(StartClock), StartClock + 1800)
              = << -10, 1 >>
        /\ RateOf(45, Some(50), Some(StartClock), StartClock) = << 0, 1 >>
        /\ RateOf(45, None, None, StartClock) = << 0, 1 >>
      ]_vars

\* C7 witness: a reading below the one on record, taken later: the rate
\* displayed is negative
C7_Witness ==
    /\ ev.op = "tick" /\ ev.sample = "present" /\ ev.outcome = "completed"
    /\ label_rate /= None /\ label_rate[1] < 0
    /\ prev.pct = 4 /\ prev.time > StartClock

\* C8: save_and_close changes neither latch, and the first reading processed
\* after it is evaluated against the new seuil_critique and seuil_plein.
C8_SettingsKeepLatches ==
    [][ /\ (ev'.op = "settings"
                /\ \E form \in SettingsForms : SaveAndClose(form))
              => UNCHANGED latchVars
        /\ (ev.op = "settings" /\ CompletesPresent) =>
              LET crit == prev'.pct <= seuil_critique' /\ ~prev'.charging
                  full == prev'.charging /\ prev'.pct >= seuil_plein'
              IN  /\ deja_alerte_critique' = crit
                  /\ deja_alerte_plein' = full
                  /\ ev'.critical <=> (crit /\ ~deja_alerte_critique)
                  /\ ev'.full <=> (full /\ ~deja_alerte_plein)
      ]_vars

\* C8 witness: the settings were saved while the critical latch was set, and
\* the last reading is no longer critical under the new threshold
C8_Witness ==
    /\ ev.op = "settings" /\ ev.outcome = "completed"
    /\ deja_alerte_critique
    /\ prev.some /\ prev.crit /\ prev.pct > seuil_critique

\* C9 as claimed: a save that fails leaves every configuration field at its
\* previous value.
C9_SettingsAtomic ==
    [][ \A form \in SettingsForms :
            (~form.interval_parses /\ SaveAndClose(form))
                => UNCHANGED cfgVars
      ]_vars

\* C10 as claimed: on every tick 1 <= seuil_critique <= 99,
\* 50 <= seuil_plein <= 100 and interval_ms >= 1000.
C10_ThresholdsInRange ==
    (ev.op = "tick" /\ ev.sample = "present" /\ ev.outcome = "completed") =>
        /\ 1 <= seuil_critique /\ seuil_critique <= 99
        /\ 50 <= seuil_plein /\ seuil_plein <= 100
        /\ interval_ms >= 1000

\* C11 as claimed: hibernate_threshold is at most seuil_critique; here in the
\* states the claim singles out, those a settings update accepted by
\* save_and_close leaves.
C11_HibernateBelowCritical ==
    (ev.op = "settings" /\ ev.outcome = "completed")
        => hibernate_threshold <= seuil_critique

\* C12 as claimed: the actions a reading triggers do not hold up the sampling
\* loop: while the auto-hibernate prompt is open and unanswered, the next
\* call of update_interface is already scheduled.
C12_PromptDoesNotStall ==
    (_running /\ pc = "prompt") => pending > 0

\* C13: while the application is running, a call of update_interface that
\* comes to its end has scheduled exactly one following call, whether its
\* try block ran to the end or a collaborator raised in it (the battery read,
\* a drawing call, the prompt): the failure is caught, and one call is
\* pending afterwards.
C13_FailureStillSchedules ==
    [][ (TickEnds /\ _running') => (ev'.scheduled /\ pending' = 1) ]_vars

\* C13 witness: the auto-hibernate prompt raised on a critical reading, and
\* the next call is scheduled
C13_Witness ==
    /\ _running /\ pc = "idle"
    /\ ev.op = "tick" /\ ev.outcome = "raised" /\ ev.asked
    /\ ev.scheduled /\ pending = 1

\* C14 as claimed: after every call of update_interface that read a battery
\* and came to its end, last_percent is that reading's percent and
\* last_update that call's time, whether an alert fired or a collaborator
\* (a drawing call, the prompt) raised part-way.
C14_TrackersAlwaysUpdated ==
    [][ /\ \A reading \in Readings, draws_ok \in BOOLEAN :
            (TickPresent(reading, draws_ok)
                /\ ev'.outcome \in {"completed", "raised"})
              => /\ last_percent' = Some(Pct(reading))
                 /\ last_update' = Some(clock)
        /\ \A answer \in Answers :
            PromptAnswer(answer)
              => /\ last_percent' = Some(frame.pct)
                 /\ last_update' = Some(clock)
      ]_vars

\* C15 as claimed: whatever percent the battery source reports, values
\* outside [0,100] included, the values in history and in last_percent lie
\* in [0,100].
C15_PercentClamped ==
    /\ \A i \in 1..Len(history) : history[i] \in 0..100
    /\ last_percent /= None => Val(last_percent) \in 0..100

\* C16 as claimed: the auto-hibernate prompt is opened at most once between
\* the start of the application and its end, and windows_hibernate is called
\* from update_interface only when the user answered yes to that prompt.
\* The prompts looked at are those of a reading that follows one processed to
\* the end on which the critical condition was false.
C16_PromptOncePerSession ==
    [][ /\ (prev.some /\ ~prev.crit /\ AsksPrompt) => ~asked_before
        /\ (ev'.hibernate /\ ev' /= ev) => PromptAnswer("yes")
      ]_vars

\* C17: the custom command, the power-saver switch and the auto-hibernate
\* prompt happen only on a reading that fires the critical alert (condition
\* true, latch false before it): the command if and only if one is set, the
\* switch if and only if enable_power_saver_auto, whatever
\* power_saver_threshold is, the prompt if and only if auto_hibernate and
\* pct <= hibernate_threshold on that very reading.  So a reading at or below
\* hibernate_threshold that finds the latch set raises no prompt.
C17_ActionsOnlyOnAlertEdge ==
    [][ \A reading \in Readings :
            DrawsPresent(reading) =>
                LET pct == Pct(reading)
                    fires == /\ ~deja_alerte_critique
                             /\ pct <= seuil_critique
                             /\ ~reading.power_plugged
                IN  /\ ev'.critical <=> fires
                    /\ ev'.command <=> (fires /\ custom_command /= "")
                    /\ ev'.power_saver <=> (fires /\ enable_power_saver_auto)
                    /\ ev'.asked <=>
                          (fires /\ auto_hibernate
                                 /\ pct <= hibernate_threshold)
                    /\ (deja_alerte_critique /\ pct <= hibernate_threshold)
                          => ~ev'.asked /\ asked_before' = asked_before
      ]_vars

\* C17 witness: with auto_hibernate on, the level entered the critical range
\* above hibernate_threshold and has now been read at or below it on
\* battery: the latch is set, and no prompt was opened since the start
C17_Witness ==
    /\ ev.op = "tick" /\ ev.sample = "present" /\ ev.outcome = "completed"
    /\ auto_hibernate /\ ~prev.charging
    /\ prev.pct <= hibernate_threshold /\ prev.pct <= seuil_critique
    /\ deja_alerte_critique /\ ~ev.critical /\ ~ev.asked
    /\ ~asked_before

\* C18: stopping is final.  Once quit_app has set _running to false it stays
\* false; a call of update_interface that begins afterwards returns at once:
\* it reads no battery, fires no alert, calls no collaborator and schedules
\* nothing; with no call suspended in the prompt, nothing changes the
\* configuration, history, latches, trackers or displayed rate any more and
\* no call is added to the pending ones.  At any time at most one call of
\* update_interface is pending.
C18_StoppingIsFinal ==
    [][ /\ ~_running => ~_running'
        /\ (~_running /\ pc = "idle") =>
              /\ UNCHANGED << cfgVars, latchVars, trackVars, history,
                              label_rate, pc >>
              /\ pending' <= pending
        /\ TickStopped =>
              /\ ev'.sample = "none"
              /\ ~ev'.critical /\ ~ev'.full /\ ~ev'.command
              /\ ~ev'.power_saver /\ ~ev'.asked /\ ~ev'.hibernate
              /\ ~ev'.scheduled
              /\ pending' = pending - 1
        /\ pending \in {0, 1} /\ pending' \in {0, 1}
      ]_vars

\* C18 witness: after quit_app the pending call has run and returned: none
\* is pending, and the history, a set latch and the trackers are as they were
C18_Witness ==
    /\ ~_running /\ pc = "idle" /\ pending = 0
    /\ ev.op = "tick" /\ ev.outcome = "returned"
    /\ history /= << >> /\ deja_alerte_critique /\ last_percent /= None

====
